---- MODULE Spec2Model ----
(***************************************************************************)
(* Model of MemoryManager (src/MemoryManager/MemoryManager.cpp): a         *)
(* word-addressed pool with a hole list, a partition list, an occupancy    *)
(* bitmap and a pluggable placement function (bestFit / worstFit).         *)
(*                                                                         *)
(* Representation.                                                         *)
(*  - memory is the size in bytes of the vector<char> backing store; an    *)
(*    address is a byte offset from &memory[0], Null is any pointer that   *)
(*    is not inside the store (nullptr included).                          *)
(*  - holes and partitions are sequences of pairs <<first, second>>.       *)
(*    The C++ pairs hold 32-bit unsigned values; a value x is written as   *)
(*    the integer congruent to x modulo 2^32 that lies in -2^31..2^31-1,   *)
(*    so + and - are the machine operations and ULess is the unsigned      *)
(*    order.                                                               *)
(*  - bitmap is the vector<int>, as a sequence: bit i is bitmap[i+1].      *)
(*  - crashed records that an operation ran into undefined behaviour and   *)
(*    the build aborted; nothing happens after that.                       *)
(*  - last, ret and holesBefore record the last call (operation, argument, *)
(*    word count allocate computed or free released, whether the argument  *)
(*    of free was the address of a live partition, the operation called    *)
(*    before it, the number of partitions it found), the value returned   *)
(*    and the hole list an allocate started from; calls counts the calls   *)
(*    made on the object since its construction.                           *)
(***************************************************************************)
EXTENDS Integers, Sequences, FiniteSets, TLC

VARIABLES memory, holes, partitions, bitmap, wordSize, memSize, allocator,
          crashed, last, ret, holesBefore, calls

vars == <<memory, holes, partitions, bitmap, wordSize, memSize, allocator,
          crashed, last, ret, holesBefore, calls>>

\* ------------------------------------------------------------- bounds
MaxWords == 5        \* largest sizeInWords passed to initialize (SpecValid)
MaxSmallWords == 3   \* largest sizeInWords passed to initialize (Spec)
MaxWordSize == 2     \* largest wordSize passed to the constructor
MaxHoles == 4        \* free is not called once holes has this many entries
MaxPartitions == 5   \* allocate is not called once partitions has this many
MaxCalls == 13       \* calls made on one object (SpecValid)
MaxSmallCalls == 7   \* calls made on one object (Spec)

\* ------------------------------------------------------------- constants
Null == -1
WordLimit == 65535
BestInit == 65536
U16 == 65536

Allocators == {"bestFit", "worstFit"}

\* ------------------------------------------------------------- helpers
\* unsigned 32-bit "<" on the signed representatives
ULess(a, b) == IF (a >= 0) = (b >= 0) THEN a < b ELSE a >= 0

\* operator< of pair<unsigned, unsigned>
PairLess(p, q) == ULess(p[1], q[1]) \/ (p[1] = q[1] /\ ULess(p[2], q[2]))

\* vector::erase(begin() + i), i a C index inside the vector
EraseAt(v, i) == SubSeq(v, 1, i) \o SubSeq(v, i + 2, Len(v))

RECURSIVE InsertSorted(_, _)
InsertSorted(v, p) ==
  IF v = <<>> THEN <<p>>
  ELSE IF PairLess(p, Head(v)) THEN <<p>> \o v
  ELSE <<Head(v)>> \o InsertSorted(Tail(v), p)

\* std::sort(v.begin(), v.end()) on a vector of pairs
RECURSIVE Sort(_)
Sort(v) == IF v = <<>> THEN <<>> ELSE InsertSorted(Sort(Tail(v)), Head(v))

\* a fill that runs from bm.begin() + from to bm.end()
FillToEnd(bm, from, n, val) ==
  [k \in 1..Len(bm) |-> IF k - 1 >= from THEN val ELSE bm[k]]

\* std::fill(bm.begin() + from, bm.begin() + from + n, val), restricted to
\* the elements the vector has
Fill(bm, from, n, val) ==
  [k \in 1..Len(bm) |-> IF k - 1 >= from /\ k - 1 < from + n THEN val ELSE bm[k]]

\* ------------------------------------------------------------- getList
RECURSIVE EncodePairs(_)
EncodePairs(hs) ==
  IF hs = <<>> THEN <<>>
  ELSE <<Head(hs)[1] % U16, Head(hs)[2] % U16>> \o EncodePairs(Tail(hs))

\* the uint16_t array of getList: [count, first0, second0, first1, ...]
EncodeList(hs) == <<Len(hs) % U16>> \o EncodePairs(hs)

\* a null array pointer: no array; the arrays getList and getBitmap build
\* have at least one element
NullArray == <<>>

\* getList without the test of memory.size()
getListUnchecked == EncodeList(holes)

getList == IF memory = 0 THEN NullArray ELSE EncodeList(holes)

\* ------------------------------------------------------------- accessors
\* getMemoryLimit: memory.size()
getMemoryLimit == memory

\* the byte getBitmap builds from bitmap[i] .. bitmap[i + 7] (C indices):
\* bitmap[i + j] << j or-ed for j = 7 .. 0, cast to uint8_t; the ints are
\* 0 or 1, so the or of the shifted values is their sum
packByte(bm, i) ==
  (bm[i + 1] + 2 * bm[i + 2] + 4 * bm[i + 3] + 8 * bm[i + 4] + 16 * bm[i + 5]
   + 32 * bm[i + 6] + 64 * bm[i + 7] + 128 * bm[i + 8]) % 256

\* the uint8_t array of getBitmap: the byte count (uint16_t, low byte first)
\* and then one byte per eight words
getBitmap ==
  IF memory = 0 THEN NullArray
  ELSE LET size == (Len(bitmap) \div 8) % U16
       IN <<size % 256, size \div 256>>
          \o [b \in 1..(Len(bitmap) \div 8) |-> packByte(bitmap, 8 * (b - 1))]

\* the values dumpMemoryMap can return: -1 without touching the file when
\* memory is empty, else -1 when open fails and 0 when the text was written
dumpMemoryMap == IF memory = 0 THEN {-1} ELSE {-1, 0}

\* ------------------------------------------------------------- strategies
\* list is the uint16_t array; C index i is list[i + 1]
RECURSIVE bestFitLoop(_, _, _, _)
bestFitLoop(sizeInWords, list, i, bestFitHole) ==
  IF ~(i < list[1] * 2) THEN bestFitHole[1]
  ELSE IF list[i + 2] < bestFitHole[2] /\ list[i + 2] >= sizeInWords
       THEN bestFitLoop(sizeInWords, list, i + 2, <<list[i + 1], list[i + 2]>>)
       ELSE bestFitLoop(sizeInWords, list, i + 2, bestFitHole)

\* bestFit with "<=" for "<" in the comparison of lengths
RECURSIVE bestFitLoopLastTie(_, _, _, _)
bestFitLoopLastTie(sizeInWords, list, i, bestFitHole) ==
  IF ~(i < list[1] * 2) THEN bestFitHole[1]
  ELSE IF list[i + 2] <= bestFitHole[2] /\ list[i + 2] >= sizeInWords
       THEN bestFitLoopLastTie(sizeInWords, list, i + 2, <<list[i + 1], list[i + 2]>>)
       ELSE bestFitLoopLastTie(sizeInWords, list, i + 2, bestFitHole)

bestFitLastTie(sizeInWords, list) ==
  bestFitLoopLastTie(sizeInWords, list, 1, <<-1, BestInit>>)

bestFit(sizeInWords, list) == bestFitLoop(sizeInWords, list, 1, <<-1, BestInit>>)

RECURSIVE worstFitLoop(_, _, _, _)
worstFitLoop(sizeInWords, list, i, worstFitHole) ==
  IF ~(i < list[1] * 2) THEN worstFitHole[1]
  ELSE IF list[i + 2] > worstFitHole[2] /\ list[i + 2] >= sizeInWords
       THEN worstFitLoop(sizeInWords, list, i + 2, <<list[i + 1], list[i + 2]>>)
       ELSE worstFitLoop(sizeInWords, list, i + 2, worstFitHole)

\* worstFit with ">=" for ">" in the comparison of lengths
RECURSIVE worstFitLoopLastTie(_, _, _, _)
worstFitLoopLastTie(sizeInWords, list, i, worstFitHole) ==
  IF ~(i < list[1] * 2) THEN worstFitHole[1]
  ELSE IF list[i + 2] >= worstFitHole[2] /\ list[i + 2] >= sizeInWords
       THEN worstFitLoopLastTie(sizeInWords, list, i + 2, <<list[i + 1], list[i + 2]>>)
       ELSE worstFitLoopLastTie(sizeInWords, list, i + 2, worstFitHole)

worstFitLastTie(sizeInWords, list) ==
  worstFitLoopLastTie(sizeInWords, list, 1, <<-1, -1>>)

worstFit(sizeInWords, list) == worstFitLoop(sizeInWords, list, 1, <<-1, -1>>)

\* a call that runs bestFit whatever function is stored
CallAllocatorAlwaysBest(a, words, list) == bestFit(words, list)

\* the stored std::function applied to (words, list)
CallAllocator(a, words, list) ==
  IF a = "bestFit" THEN bestFit(words, list) ELSE worstFit(words, list)

\* ------------------------------------------------------------- lifecycle
Init ==
  /\ memory = 0
  /\ holes = <<>>
  /\ partitions = <<>>
  /\ bitmap = <<>>
  /\ wordSize \in 1..MaxWordSize
  /\ memSize \in 0..MaxWords      \* uninitialized member: indeterminate
  /\ allocator \in Allocators
  /\ crashed = FALSE
  /\ last = [op |-> "construct", arg |-> 0, words |-> 0, live |-> FALSE,
             prev |-> "none", parts |-> 0]
  /\ ret = Null
  /\ holesBefore = <<>>
  /\ calls = 0

bitmapSizeFor(m) == IF m % 8 = 0 THEN m ELSE m + 8 - (m % 8)

\* std::vector::resize(n) of a vector of ints: keeps the first n elements,
\* appends zeros
Resize(bm, n) == [k \in 1..n |-> IF k <= Len(bm) THEN bm[k] ELSE 0]

\* initialize without the call of shutdown() it starts with
initializeNoShutdown(sizeInWords) ==
  /\ ~crashed
  /\ memSize' = (IF sizeInWords > WordLimit THEN WordLimit ELSE sizeInWords)
  /\ memory' = memSize' * wordSize
  /\ holes' = Append(holes, <<0, memSize'>>)
  /\ partitions' = partitions
  /\ bitmap' = Resize(bitmap, bitmapSizeFor(memSize'))
  /\ last' = [op |-> "initialize", arg |-> sizeInWords, words |-> 0, live |-> FALSE,
              prev |-> last.op, parts |-> Len(partitions)]
  /\ ret' = Null
  /\ holesBefore' = <<>>
  /\ calls' = calls + 1
  /\ UNCHANGED <<wordSize, allocator, crashed>>

initialize(sizeInWords) ==
  /\ ~crashed
  /\ memSize' = (IF sizeInWords > WordLimit THEN WordLimit ELSE sizeInWords)
  /\ memory' = memSize' * wordSize
  /\ holes' = <<<<0, memSize'>>>>
  /\ partitions' = <<>>
  /\ bitmap' = [k \in 1..bitmapSizeFor(memSize') |-> 0]
  /\ last' = [op |-> "initialize", arg |-> sizeInWords, words |-> 0, live |-> FALSE,
              prev |-> last.op, parts |-> Len(partitions)]
  /\ ret' = Null
  /\ holesBefore' = <<>>
  /\ calls' = calls + 1
  /\ UNCHANGED <<wordSize, allocator, crashed>>

\* shutdown without bitmap.clear()
shutdownKeepsBitmap ==
  /\ ~crashed
  /\ memory' = 0
  /\ holes' = <<>>
  /\ partitions' = <<>>
  /\ bitmap' = bitmap
  /\ last' = [op |-> "shutdown", arg |-> 0, words |-> 0, live |-> FALSE,
              prev |-> last.op, parts |-> Len(partitions)]
  /\ ret' = Null
  /\ holesBefore' = <<>>
  /\ calls' = calls + 1
  /\ UNCHANGED <<wordSize, memSize, allocator, crashed>>

shutdown ==
  /\ ~crashed
  /\ memory' = 0
  /\ holes' = <<>>
  /\ partitions' = <<>>
  /\ bitmap' = <<>>
  /\ last' = [op |-> "shutdown", arg |-> 0, words |-> 0, live |-> FALSE,
              prev |-> last.op, parts |-> Len(partitions)]
  /\ ret' = Null
  /\ holesBefore' = <<>>
  /\ calls' = calls + 1
  /\ UNCHANGED <<wordSize, memSize, allocator, crashed>>

setAllocator(a) ==
  /\ ~crashed
  /\ allocator' = a
  /\ last' = [op |-> "setAllocator", arg |-> a, words |-> 0, live |-> FALSE,
              prev |-> last.op, parts |-> Len(partitions)]
  /\ ret' = Null
  /\ holesBefore' = <<>>
  /\ calls' = calls + 1
  /\ UNCHANGED <<memory, holes, partitions, bitmap, wordSize, memSize, crashed>>

\* ------------------------------------------------------------- allocate
\* C index of the first hole whose first equals holeSelected, 0 when none
RECURSIVE findHole(_, _, _)
findHole(hs, holeSelected, i) ==
  IF i >= Len(hs) THEN 0
  ELSE IF hs[i + 1][1] = holeSelected THEN i
  ELSE findHole(hs, holeSelected, i + 1)

\* unsigned words = ceil(sizeInBytes/wordSize): the division is the integer
\* division of two unsigned operands, ceil is applied to its quotient
wordsFor(sizeInBytes, ws) == sizeInBytes \div ws

\* the hole list after the chosen hole has been erased or shrunk
carve(hs, holeSelected, words) ==
  LET index == findHole(hs, holeSelected, 0)
  IN IF hs[index + 1][2] = words
     THEN EraseAt(hs, index)
     ELSE [hs EXCEPT ![index + 1] = <<holeSelected + words, hs[index + 1][2] - words>>]

allocate(sizeInBytes) ==
  /\ ~crashed
  /\ IF sizeInBytes > memSize * wordSize \/ sizeInBytes < 0 \/ memory = 0
     THEN /\ ret' = Null
          /\ last' = [op |-> "allocate", arg |-> sizeInBytes, words |-> 0, live |-> FALSE,
              prev |-> last.op, parts |-> Len(partitions)]
          /\ UNCHANGED <<holes, partitions, bitmap, crashed>>
     ELSE LET words == wordsFor(sizeInBytes, wordSize)
              list == getList
              holeSelected == CallAllocator(allocator, words, list)
          IN /\ last' = [op |-> "allocate", arg |-> sizeInBytes, words |-> words, live |-> FALSE,
              prev |-> last.op, parts |-> Len(partitions)]
             /\ IF holeSelected = -1
                THEN /\ ret' = Null
                     /\ UNCHANGED <<holes, partitions, bitmap, crashed>>
                ELSE /\ holes' = carve(holes, holeSelected, words)
                     /\ partitions' = Sort(Append(partitions, <<holeSelected, words>>))
                     /\ bitmap' = Fill(bitmap, holeSelected, words, 1)
                     \* a fill that runs past bitmap.end() is undefined: the
                     \* build either aborts or goes on
                     /\ crashed' \in (IF holeSelected + words > Len(bitmap)
                                      THEN {TRUE, FALSE} ELSE {FALSE})
                     /\ ret' = holeSelected * wordSize
  /\ holesBefore' = holes
  /\ calls' = calls + 1
  /\ UNCHANGED <<memory, wordSize, memSize, allocator>>

\* ------------------------------------------------------------- free
\* the addresses allocate has returned for the partitions now live
LiveAddresses == {partitions[k][1] * wordSize : k \in 1..Len(partitions)}

\* word offset of an address: the last i in 0, wordSize, 2*wordSize, ... below
\* memory.size() with &memory[i] == address, 0 when there is none
wordOffsetOf(address) ==
  IF address >= 0 /\ address < memory /\ address % wordSize = 0
  THEN address \div wordSize ELSE 0

\* C index of the first partition whose first equals wordOffset, -1 when none
RECURSIVE findPartition(_, _, _)
findPartition(ps, wordOffset, i) ==
  IF i >= Len(ps) THEN -1
  ELSE IF ps[i + 1][1] = wordOffset THEN i
  ELSE findPartition(ps, wordOffset, i + 1)

\* length of that partition, 0 when there is none
lengthOf(ps, wordOffset) ==
  LET p == findPartition(ps, wordOffset, 0)
  IN IF p = -1 THEN 0 ELSE ps[p + 1][2]

\* the loop that combines the freed extent with its neighbours; acc holds
\* combine and erase[0], erase[1]
RECURSIVE combineLoop(_, _, _, _, _)
combineLoop(hs, wordOffset, length, i, acc) ==
  IF i >= Len(hs) THEN acc
  ELSE LET h == hs[i + 1]
           a1 == IF h[1] + h[2] = wordOffset
                 THEN [combine |-> <<h[1], h[2] + length>>, erase0 |-> i,
                       erase1 |-> acc.erase1]
                 ELSE acc
       IN IF h[1] = a1.combine[1] + a1.combine[2]
          THEN [combine |-> <<a1.combine[1], a1.combine[2] + h[2]>>,
                erase0 |-> a1.erase0, erase1 |-> i]
          ELSE combineLoop(hs, wordOffset, length, i + 1, a1)

\* if (erase[0] != -1) holes.erase(holes.begin() + erase[0])
eraseFirst(hs, e0) == IF e0 # -1 THEN EraseAt(hs, e0) ELSE hs

\* if (erase[1] != -1) holes.erase(holes.begin() + erase[1]), on the vector
\* the first erase left. The set of outcomes: erasing end() is undefined, and
\* the build either drops the last element (libstdc++ moves nothing and
\* decrements the end pointer) or aborts (crash).
eraseSecond(hs, e1) ==
  IF e1 = -1 THEN {[crash |-> FALSE, v |-> hs]}
  ELSE IF e1 < Len(hs) THEN {[crash |-> FALSE, v |-> EraseAt(hs, e1)]}
  ELSE IF Len(hs) > 0
       THEN {[crash |-> FALSE, v |-> SubSeq(hs, 1, Len(hs) - 1)],
             [crash |-> TRUE, v |-> hs]}
       ELSE {[crash |-> TRUE, v |-> hs]}

free(address) ==
  /\ ~crashed
  /\ LET wordOffset == wordOffsetOf(address)
         p == findPartition(partitions, wordOffset, 0)
         length == lengthOf(partitions, wordOffset)
         c == combineLoop(holes, wordOffset, length, 0,
                          [combine |-> <<wordOffset, length>>, erase0 |-> -1,
                           erase1 |-> -1])
         h1 == eraseFirst(holes, c.erase0)
     IN /\ partitions' = (IF p = -1 THEN partitions ELSE EraseAt(partitions, p))
        /\ \E out \in eraseSecond(h1, c.erase1) :
             IF out.crash
             THEN /\ crashed' = TRUE
                  /\ holes' = h1
                  /\ UNCHANGED bitmap
             ELSE /\ holes' = Sort(Append(out.v, c.combine))
                  /\ bitmap' = Fill(bitmap, wordOffset, length, 0)
                  /\ crashed' \in (IF wordOffset + length > Len(bitmap)
                                   THEN {TRUE, FALSE} ELSE {FALSE})
  /\ last' = [op |-> "free", arg |-> address,
              words |-> lengthOf(partitions, wordOffsetOf(address)),
              live |-> address \in LiveAddresses,
              prev |-> last.op, parts |-> Len(partitions)]
  /\ ret' = Null
  /\ holesBefore' = <<>>
  /\ calls' = calls + 1
  /\ UNCHANGED <<memory, wordSize, memSize, allocator>>

\* ------------------------------------------------------------- observers
\* the accessors as calls: each returns its value and changes no member
observe(op, value) ==
  /\ ~crashed
  /\ ret' = value
  /\ last' = [op |-> op, arg |-> 0, words |-> 0, live |-> FALSE,
              prev |-> last.op, parts |-> Len(partitions)]
  /\ holesBefore' = <<>>
  /\ calls' = calls + 1
  /\ UNCHANGED <<memory, holes, partitions, bitmap, wordSize, memSize, allocator,
                 crashed>>

callGetList == observe("getList", getList)
callGetBitmap == observe("getBitmap", getBitmap)
callDumpMemoryMap == \E r \in dumpMemoryMap : observe("dumpMemoryMap", r)
callGetMemoryLimit == observe("getMemoryLimit", getMemoryLimit)

\* ------------------------------------------------------------- Spec
\* every call with every argument, on pools of up to MaxSmallWords words
Sizes == 0..(MaxSmallWords * MaxWordSize + 1)
Addresses == {Null} \cup (0..(MaxSmallWords * MaxWordSize - 1))

Next ==
  \/ \E n \in 0..MaxSmallWords : calls < MaxSmallCalls /\ initialize(n)
  \/ calls < MaxSmallCalls /\ shutdown
  \/ \E a \in Allocators : calls < MaxSmallCalls /\ setAllocator(a)
  \/ \E s \in Sizes : calls < MaxSmallCalls /\ Len(partitions) < MaxPartitions /\ allocate(s)
  \/ \E a \in Addresses : calls < MaxSmallCalls /\ Len(holes) < MaxHoles /\ free(a)

Spec == Init /\ [][Next]_vars

\* ------------------------------------------------------------- SpecValid
\* the calls a well-behaved client makes, on pools of up to MaxWords words:
\* initialize with at least one word, allocate of at least one whole word,
\* free of the address of a live partition
NextValid ==
  \/ \E n \in 1..MaxWords : calls < MaxCalls /\ initialize(n)
  \/ \E a \in Allocators : calls < MaxCalls /\ setAllocator(a)
  \/ \E s \in wordSize..(MaxWords * MaxWordSize) :
       calls < MaxCalls /\ Len(partitions) < MaxPartitions /\ allocate(s)
  \/ \E a \in LiveAddresses :
       calls < MaxCalls /\ Len(holes) < MaxHoles /\ free(a)

SpecValid == Init /\ [][NextValid]_vars

\* ------------------------------------------------------------- SpecFit
\* the two placement functions applied to hole lists ordered ascending by
\* start: up to MaxFitHoles holes with starts in 0..MaxFitStart and lengths
\* in 0..MaxFitLen, requests of 0..MaxFitLen + 1 words
MaxFitHoles == 3
MaxFitStart == 4
MaxFitLen == 3

AscendingLists ==
  {hs \in UNION {[1..n -> (0..MaxFitStart) \X (0..MaxFitLen)] : n \in 0..MaxFitHoles} :
     \A k \in 1..(Len(hs) - 1) : hs[k][1] < hs[k + 1][1]}

InitFit ==
  /\ holes \in AscendingLists
  /\ wordSize = 1
  /\ memSize = MaxFitStart + MaxFitLen + 1
  /\ memory = memSize * wordSize
  /\ partitions = <<>>
  /\ bitmap = [k \in 1..bitmapSizeFor(memSize) |-> 0]
  /\ allocator = "bestFit"
  /\ crashed = FALSE
  /\ last = [op |-> "construct", arg |-> 0, words |-> 0, live |-> FALSE,
             prev |-> "none", parts |-> 0]
  /\ ret = Null
  /\ holesBefore = <<>>
  /\ calls = 0

callBestFit(sizeInWords) ==
  /\ ret' = bestFit(sizeInWords, getList)
  /\ last' = [op |-> "bestFit", arg |-> sizeInWords, words |-> sizeInWords, live |-> FALSE,
              prev |-> last.op, parts |-> Len(partitions)]
  /\ UNCHANGED <<memory, holes, partitions, bitmap, wordSize, memSize, allocator,
                 crashed, holesBefore, calls>>

callWorstFit(sizeInWords) ==
  /\ ret' = worstFit(sizeInWords, getList)
  /\ last' = [op |-> "worstFit", arg |-> sizeInWords, words |-> sizeInWords, live |-> FALSE,
              prev |-> last.op, parts |-> Len(partitions)]
  /\ UNCHANGED <<memory, holes, partitions, bitmap, wordSize, memSize, allocator,
                 crashed, holesBefore, calls>>

NextFit ==
  \/ \E w \in 0..(MaxFitLen + 1) : callBestFit(w)
  \/ \E w \in 0..(MaxFitLen + 1) : callWorstFit(w)

SpecFit == InitFit /\ [][NextFit]_vars

\* ------------------------------------------------------------- SpecObserve
\* every call with every argument and the accessors, on pools of up to
\* MaxSmallWords words; initialize is also called with the largest word
\* count and one more, and a pool of that size is only asked its limit,
\* re-initialized or shut down
MaxObserveCalls == 4

WordCounts == (0..MaxSmallWords) \cup {WordLimit, WordLimit + 1}
SmallPool == memory <= MaxSmallWords * MaxWordSize

NextObserve ==
  \/ \E n \in WordCounts : calls < MaxObserveCalls /\ initialize(n)
  \/ calls < MaxObserveCalls /\ shutdown
  \/ \E a \in Allocators : calls < MaxObserveCalls /\ SmallPool /\ setAllocator(a)
  \/ \E s \in Sizes : calls < MaxObserveCalls /\ SmallPool /\ allocate(s)
  \/ \E a \in Addresses : calls < MaxObserveCalls /\ SmallPool /\ free(a)
  \/ calls < MaxObserveCalls /\ SmallPool /\ callGetList
  \/ calls < MaxObserveCalls /\ SmallPool /\ callGetBitmap
  \/ calls < MaxObserveCalls /\ SmallPool /\ callDumpMemoryMap
  \/ calls < MaxObserveCalls /\ callGetMemoryLimit

SpecObserve == Init /\ [][NextObserve]_vars

\* ============================================================= claims
\* word w lies in the extent e = <<first, second>> (second is unsigned: a
\* negative representative is a length above 2^31)
ExtentHas(e, w) == e[1] <= w /\ (e[2] < 0 \/ w < e[1] + e[2])

HolesWith(w) == {k \in 1..Len(holes) : ExtentHas(holes[k], w)}
PartitionsWith(w) == {k \in 1..Len(partitions) : ExtentHas(partitions[k], w)}

\* C1: once initialize(wordCount) has run, after any sequence of allocate
\* calls of at least one whole word and free calls on live partitions, every
\* word of [0, wordCount) lies in exactly one extent of holes and partitions.
C1_Coverage ==
  (memory # 0 /\ ~crashed) =>
    \A w \in 0..(memSize - 1) :
      Cardinality(HolesWith(w)) + Cardinality(PartitionsWith(w)) = 1

\* C2: in every reachable state partitions is sorted ascending by start, no
\* word lies in two partitions, and no word lies in a partition and a hole.
C2_PartitionsDisjoint ==
  ~crashed =>
    /\ \A k \in 1..(Len(partitions) - 1) : partitions[k][1] <= partitions[k + 1][1]
    /\ \A w \in 0..(memSize - 1) :
         /\ Cardinality(PartitionsWith(w)) <= 1
         /\ PartitionsWith(w) # {} => HolesWith(w) = {}

\* C3: after every operation, bit i of the bitmap is 1 exactly when word i
\* (i below wordCount) lies in some partition; the padding bits are 0.
C3_BitmapFidelity ==
  ~crashed =>
    \A i \in 0..(Len(bitmap) - 1) :
      (bitmap[i + 1] = 1) <=> (i < memSize /\ PartitionsWith(i) # {})

\* C4: after every free, no two distinct holes i, j have
\* start_i + length_i = start_j.
C4_NonAdjacent ==
  (last.op = "free" /\ ~crashed) =>
    \A i, j \in 1..Len(holes) :
      i # j => holes[i][1] + holes[i][2] # holes[j][1]

\* C5: when allocate(n) has just returned an address a (not null) and the
\* next call is free(a), the hole list after the free is the hole list the
\* allocate started from.
C5_RoundTrip ==
  [][(last.op = "allocate" /\ ret # Null /\ last'.op = "free" /\ last'.arg = ret
      /\ ~crashed')
     => holes' = holesBefore]_vars

\* C6: a second free of an address, right after the free that released the
\* live partition (of at least one word) at that address and with no
\* partition there any more, changes neither the holes, nor the partitions,
\* nor the bitmap.
C6_DoubleFreeNoOp ==
  [][(last.op = "free" /\ last.live /\ last.words >= 1
      /\ last'.op = "free" /\ last'.arg = last.arg
      /\ last.arg \notin LiveAddresses /\ ~crashed')
     => UNCHANGED <<holes, partitions, bitmap>>]_vars

\* C7: allocate returns null and changes nothing when the pool is
\* uninitialized, when sizeInBytes is 0, or when sizeInBytes exceeds
\* wordCount * wordSize.
C7_InvalidAllocate ==
  [][(last'.op = "allocate"
      /\ (memory = 0 \/ last'.arg = 0 \/ last'.arg > memSize * wordSize))
     => (ret' = Null /\ UNCHANGED <<memory, holes, partitions, bitmap>>)]_vars

CeilDiv(a, b) == (a + b - 1) \div b

\* C8: after a successful allocate(sizeInBytes) the word count handed to the
\* strategy and recorded as the partition's length is
\* ceil(sizeInBytes / wordSize), so the partition spans at least sizeInBytes.
C8_WordsRoundedUp ==
  (last.op = "allocate" /\ ret # Null /\ ~crashed) =>
    /\ last.words = CeilDiv(last.arg, wordSize)
    /\ last.words * wordSize >= last.arg
    /\ \E k \in 1..Len(partitions) :
         partitions[k] = <<ret \div wordSize, last.words>>

\* the holes of hs that can take w words
Fitting(w, hs) == {k \in 1..Len(hs) : hs[k][2] >= w}

\* start of the fitting hole of smallest length, lowest start among equals
BestChoice(w, hs) ==
  IF Fitting(w, hs) = {} THEN -1
  ELSE LET k == CHOOSE k \in Fitting(w, hs) :
                  \A j \in Fitting(w, hs) :
                    \/ hs[k][2] < hs[j][2]
                    \/ (hs[k][2] = hs[j][2] /\ hs[k][1] <= hs[j][1])
       IN hs[k][1]

\* start of the fitting hole of largest length, lowest start among equals
WorstChoice(w, hs) ==
  IF Fitting(w, hs) = {} THEN -1
  ELSE LET k == CHOOSE k \in Fitting(w, hs) :
                  \A j \in Fitting(w, hs) :
                    \/ hs[k][2] > hs[j][2]
                    \/ (hs[k][2] = hs[j][2] /\ hs[k][1] <= hs[j][1])
       IN hs[k][1]

\* C9: bestFit returns the start of the smallest hole with length >= words,
\* the lowest start among holes of that length, and -1 exactly when no hole
\* has length >= words.
C9_BestFit ==
  last.op = "bestFit" =>
    /\ ret = BestChoice(last.arg, holes)
    /\ (ret = -1) <=> (Fitting(last.arg, holes) = {})

\* bestFit has skipped a larger fitting hole and chosen the first of two
\* equally small ones
C9_Witness ==
  /\ last.op = "bestFit"
  /\ Len(holes) = 3
  /\ holes[1][2] > holes[2][2]
  /\ holes[2][2] = holes[3][2]
  /\ holes[2][2] >= last.arg
  /\ last.arg >= 1
  /\ ret = holes[2][1]

SomeHoleTakes(w, hs) == \E k \in 1..Len(hs) : ~ULess(hs[k][2], w)

\* C11: when no hole has length >= the word count of the request, which is
\* ceil(sizeInBytes / wordSize), allocate returns null and leaves the holes,
\* the partitions and the bitmap unchanged.
C11_NoFitNoChange ==
  [][(last'.op = "allocate" /\ memory # 0 /\ last'.arg >= 1
      /\ ~SomeHoleTakes(CeilDiv(last'.arg, wordSize), holes))
     => (ret' = Null /\ UNCHANGED <<holes, partitions, bitmap>>)]_vars

C13_ShutdownIdempotent ==
  [][last'.op = "shutdown" =>
       /\ memory' = 0 /\ holes' = <<>> /\ partitions' = <<>> /\ bitmap' = <<>>
       /\ last.op \in {"shutdown", "construct"} =>
            UNCHANGED <<memory, holes, partitions, bitmap, wordSize, memSize,
                        allocator, crashed>>]_vars

\* shutdown has been called on a pool it had just emptied, after two
\* earlier calls
C13_Witness ==
  /\ last.op = "shutdown"
  /\ last.prev = "shutdown"
  /\ calls >= 4
  /\ memory = 0 /\ holes = <<>> /\ partitions = <<>> /\ bitmap = <<>>

Accessors == {"getList", "getBitmap", "dumpMemoryMap", "getMemoryLimit"}

\* C14: on a pool without memory getList and getBitmap return null,
\* dumpMemoryMap returns -1 and getMemoryLimit returns 0; on an initialized
\* pool of at least one word getList and getBitmap return an array; none of
\* the four calls changes a member.
C14_Accessors ==
  [][last'.op \in Accessors =>
       /\ UNCHANGED <<memory, holes, partitions, bitmap, wordSize, memSize,
                      allocator, crashed>>
       /\ memory = 0 =>
            /\ last'.op \in {"getList", "getBitmap"} => ret' = NullArray
            /\ last'.op = "dumpMemoryMap" => ret' = -1
            /\ last'.op = "getMemoryLimit" => ret' = 0
       /\ (memory # 0 /\ memSize >= 1) =>
            (last'.op \in {"getList", "getBitmap"} => ret' # NullArray)]_vars

\* getList has returned null on a pool that had just been shut down, after
\* two earlier calls
C14_Witness ==
  /\ last.op = "getList"
  /\ last.prev = "shutdown"
  /\ ret = NullArray
  /\ memory = 0
  /\ calls >= 4

\* the set of the pairs of a list
PairSet(v) == {v[k] : k \in 1..Len(v)}

\* the holes of hs that end at word f / that start at word g
EndingAt(f, hs) == {k \in 1..Len(hs) : hs[k][1] + hs[k][2] = f}
StartingAt(g, hs) == {k \in 1..Len(hs) : hs[k][1] = g}

\* the hole list free must leave when it releases partition (f, l): hs less
\* the hole ending at f and the hole starting at f + l, plus one hole over
\* the union of those and [f, f + l)
Coalesced(f, l, hs) ==
  LET before == EndingAt(f, hs)
      after == StartingAt(f + l, hs)
      lo == IF before = {} THEN f ELSE hs[CHOOSE k \in before : TRUE][1]
      hi == IF after = {} THEN f + l
            ELSE LET k == CHOOSE k \in after : TRUE IN hs[k][1] + hs[k][2]
  IN {hs[k] : k \in (1..Len(hs)) \ (before \cup after)} \cup {<<lo, hi - lo>>}

\* C15: when free releases the live partition (f, l), the new hole set is
\* the old one less the hole that ends at f and the hole that starts at
\* f + l, plus one hole spanning those and [f, f + l); every other hole is
\* left as it was.
C15_Coalescing ==
  [][(last'.op = "free" /\ last'.live /\ last'.words >= 1 /\ ~crashed')
     => LET f == wordOffsetOf(last'.arg)
            l == last'.words
        IN /\ PairSet(holes') = Coalesced(f, l, holes)
           /\ Len(holes') = Len(holes) + 1 - Cardinality(EndingAt(f, holes))
                                          - Cardinality(StartingAt(f + l, holes))]_vars

\* index of the hole a strategy picks for w words: of the holes of
\* (unsigned) length >= w the shortest (bestFit) or the longest (worstFit),
\* the first in the list among equals; 0 when none fits
Takers(w, hs) == {k \in 1..Len(hs) : ~ULess(hs[k][2], w)}

ChosenHole(a, w, hs) ==
  IF Takers(w, hs) = {} THEN 0
  ELSE CHOOSE k \in Takers(w, hs) :
         \A j \in Takers(w, hs) :
           \/ (a = "bestFit" /\ ULess(hs[k][2], hs[j][2]))
           \/ (a = "worstFit" /\ ULess(hs[j][2], hs[k][2]))
           \/ (hs[k][2] = hs[j][2] /\ k <= j)

\* C16: a successful allocate of a whole number of words carves them from
\* the low end of the hole (s, L) the strategy chose: the hole is removed
\* when L = words and becomes (s + words, L - words) otherwise, the
\* partition (s, words) is added, every other hole and partition is
\* unchanged, and the address returned is s * wordSize past the start.
C16_CarveLowEnd ==
  [][(last'.op = "allocate" /\ ret' # Null /\ ~crashed'
      /\ last'.arg >= 1 /\ last'.arg % wordSize = 0)
     => LET words == last'.arg \div wordSize
            k == ChosenHole(allocator, words, holes)
        IN /\ k # 0
           /\ holes' = (IF holes[k][2] = words THEN EraseAt(holes, k - 1)
                        ELSE [holes EXCEPT ![k] = <<holes[k][1] + words,
                                                    holes[k][2] - words>>])
           /\ PairSet(partitions') = PairSet(partitions) \cup {<<holes[k][1], words>>}
           /\ Len(partitions') = Len(partitions) + 1
           /\ ret' = holes[k][1] * wordSize]_vars

\* C17: on an initialized pool getList() is the hole count followed by the
\* (start, length) pair of each hole, with starts strictly ascending and
\* every length >= 1.
C17_ListAscending ==
  (memory # 0 /\ ~crashed) =>
    LET list == getList
    IN /\ Len(list) = 2 * Len(holes) + 1
       /\ list[1] = Len(holes)
       /\ \A k \in 1..Len(holes) :
            /\ list[2 * k] = holes[k][1]
            /\ list[2 * k + 1] = holes[k][2]
            /\ list[2 * k + 1] >= 1
       /\ \A k \in 1..(Len(holes) - 1) : list[2 * k] < list[2 * k + 2]

\* C19: on a pool initialized with wordCount >= 1 words, once every
\* partition allocated has been freed, the holes are the single hole
\* (0, wordCount), there is no partition and every bit of the bitmap is 0.
C19_FullDrain ==
  (memory # 0 /\ partitions = <<>> /\ ~crashed) =>
    /\ holes = <<<<0, memSize>>>>
    /\ \A k \in 1..Len(bitmap) : bitmap[k] = 0

\* the address allocate returns when the strategy a picks among hs for w
\* words: that of the start of the hole picked, null when none fits
PickedAddress(a, w, hs) ==
  IF ChosenHole(a, w, hs) = 0 THEN Null ELSE hs[ChosenHole(a, w, hs)][1] * wordSize

\* C18: setAllocator(s) stores s and changes neither the holes, nor the
\* partitions, nor the bitmap, nor the backing store; no other call changes
\* the stored strategy; and every allocate that passes the size test
\* returns the hole the stored strategy picks.
C18_SetAllocator ==
  [][/\ last'.op = "setAllocator" =>
          /\ allocator' = last'.arg
          /\ UNCHANGED <<memory, holes, partitions, bitmap, memSize, wordSize>>
     /\ last'.op # "setAllocator" => allocator' = allocator
     /\ (last'.op = "allocate" /\ memory # 0 /\ last'.arg <= memSize * wordSize)
          => ret' = PickedAddress(allocator, last'.words, holes)]_vars

\* right after setAllocator(worstFit) an allocate has taken the largest
\* hole where bestFit would have taken another
C18_Witness ==
  /\ last.op = "allocate"
  /\ last.prev = "setAllocator"
  /\ allocator = "worstFit"
  /\ ret # Null
  /\ ret = PickedAddress("worstFit", last.words, holesBefore)
  /\ ret # PickedAddress("bestFit", last.words, holesBefore)

\* C20: free of the address of a live partition starting at word f removes
\* one partition, one that starts at f, leaves every other partition as it
\* was, and clears the bitmap bits of [f, f + length) and no other bit.
C20_FreeFrame ==
  [][(last'.op = "free" /\ last'.live /\ ~crashed')
     => LET f == wordOffsetOf(last'.arg)
            l == last'.words
        IN /\ \E k \in StartingAt(f, partitions) :
                /\ partitions[k][2] = l
                /\ partitions' = EraseAt(partitions, k - 1)
           /\ Len(bitmap') = Len(bitmap)
           /\ \A i \in 0..(Len(bitmap) - 1) :
                bitmap'[i + 1] = (IF f <= i /\ i < f + l THEN 0 ELSE bitmap[i + 1])]_vars

\* a partition of at least one word has been freed while another partition
\* stayed live with its bits set
C20_Witness ==
  /\ last.op = "free"
  /\ last.live
  /\ last.words >= 1
  /\ last.parts >= 2
  /\ Len(partitions) = last.parts - 1
  /\ \E i \in 1..Len(bitmap) : bitmap[i] = 1
  /\ ~crashed

====
